---------------------------- MODULE Spec2Model ----------------------------
(***************************************************************************)
(* A model of src/index.ts: the two MCP tools "curl" and "parse-json".     *)
(*                                                                         *)
(* JavaScript strings are modelled as sequences of lexemes ("texts").  A   *)
(* lexeme is a record [k, s]: JSON punctuation, a number literal, one of   *)
(* the literals true/false/null, a string literal (whose s is the text it  *)
(* denotes), white space, or a run of raw characters.  Lexing and string   *)
(* escaping are taken as exact; the grammar, the value model, the number   *)
(* conversion and the serializer are modelled.                             *)
(***************************************************************************)
EXTENDS Integers, Sequences, FiniteSets, TLC

VARIABLES pc, tool, args, input, options, calls, response, responseText,
          result, results, steps, escaped

vars == <<pc, tool, args, input, options, calls, response, responseText,
          result, results, steps, escaped>>

---------------------------------------------------------------------------
(* Lexemes *)

P(s) == [k |-> "p", s |-> s]
N(s) == [k |-> "num", s |-> s]
L(s) == [k |-> "lit", s |-> s]
S(text) == [k |-> "str", s |-> text]
R(s) == [k |-> "raw", s |-> s]
Nl == [k |-> "ws", s |-> "\n"]
Sp == [k |-> "ws", s |-> " "]

IsP(tk, s) == tk.k = "p" /\ tk.s = s

---------------------------------------------------------------------------
(* JavaScript values *)

Undefined == [t |-> "undefined", v |-> ""]
Null == [t |-> "null", v |-> ""]
Bool(b) == [t |-> "bool", v |-> b]
Num(n) == [t |-> "num", v |-> n]
Str(text) == [t |-> "str", v |-> text]
Arr(elems) == [t |-> "arr", v |-> elems]
Obj(entries) == [t |-> "obj", v |-> entries]
\* The built-in toString method of the prototype of `owner` values.
Fun(owner) == [t |-> "fun", v |-> owner]
Entry(key, val) == [k |-> key, val |-> val]

\* typeof
TypeOf(x) ==
  CASE x.t = "undefined" -> "undefined"
    [] x.t = "bool" -> "boolean"
    [] x.t = "num" -> "number"
    [] x.t = "str" -> "string"
    [] x.t = "fun" -> "function"
    [] OTHER -> "object"

\* x === null || x === undefined
IsNullish(x) == x.t = "null" \/ x.t = "undefined"

---------------------------------------------------------------------------
(* JSON.parse *)

\* The double a number literal denotes, in its canonical decimal form.
NumberValue(lexeme) ==
  CASE lexeme = "1e999" -> "Infinity"
    [] lexeme = "1.0" -> "1"
    [] OTHER -> lexeme

IsFinite(n) == n # "Infinity"

RECURSIVE HasKey(_, _)
HasKey(entries, key) ==
  IF entries = <<>> THEN FALSE
  ELSE Head(entries).k = key \/ HasKey(Tail(entries), key)

\* Defining a property: a repeated key keeps its place and takes the new value.
PutEntry(entries, key, val) ==
  IF HasKey(entries, key)
  THEN [i \in 1..Len(entries) |->
          IF entries[i].k = key THEN Entry(key, val) ELSE entries[i]]
  ELSE Append(entries, Entry(key, val))

ParseFail == [ok |-> FALSE, val |-> Undefined, rest |-> <<>>]
ParseOk(val, rest) == [ok |-> TRUE, val |-> val, rest |-> rest]

RECURSIVE ParseValue(_), ParseElements(_, _), ParseMembers(_, _)

ParseValue(ts) ==
  IF ts = <<>> THEN ParseFail
  ELSE LET h == Head(ts)
           r == Tail(ts)
       IN CASE h.k = "num" -> ParseOk(Num(NumberValue(h.s)), r)
            [] h.k = "lit" ->
                 ParseOk(IF h.s = "null" THEN Null ELSE Bool(h.s), r)
            [] h.k = "str" -> ParseOk(Str(h.s), r)
            [] IsP(h, "[") ->
                 IF r # <<>> /\ IsP(Head(r), "]")
                 THEN ParseOk(Arr(<<>>), Tail(r))
                 ELSE ParseElements(r, <<>>)
            [] IsP(h, "{") ->
                 IF r # <<>> /\ IsP(Head(r), "}")
                 THEN ParseOk(Obj(<<>>), Tail(r))
                 ELSE ParseMembers(r, <<>>)
            [] OTHER -> ParseFail

ParseElements(ts, acc) ==
  LET e == ParseValue(ts)
  IN IF ~e.ok \/ e.rest = <<>> THEN ParseFail
     ELSE IF IsP(Head(e.rest), ",")
          THEN ParseElements(Tail(e.rest), Append(acc, e.val))
     ELSE IF IsP(Head(e.rest), "]")
          THEN ParseOk(Arr(Append(acc, e.val)), Tail(e.rest))
     ELSE ParseFail

ParseMembers(ts, acc) ==
  IF Len(ts) < 2 \/ ts[1].k # "str" \/ ~IsP(ts[2], ":") THEN ParseFail
  ELSE LET m == ParseValue(SubSeq(ts, 3, Len(ts)))
       IN IF ~m.ok \/ m.rest = <<>> THEN ParseFail
          ELSE IF IsP(Head(m.rest), ",")
               THEN ParseMembers(Tail(m.rest), PutEntry(acc, ts[1].s, m.val))
          ELSE IF IsP(Head(m.rest), "}")
               THEN ParseOk(Obj(PutEntry(acc, ts[1].s, m.val)), Tail(m.rest))
          ELSE ParseFail

IsWs(tk) == tk.k = "ws"

\* JSON.parse(text): [ok, val]; ok = FALSE is a thrown SyntaxError.
JSONparse(text) ==
  LET p == ParseValue(SelectSeq(text, LAMBDA tk : ~IsWs(tk)))
  IN IF p.ok /\ p.rest = <<>>
     THEN [ok |-> TRUE, val |-> p.val]
     ELSE [ok |-> FALSE, val |-> Undefined]

SyntaxErrorMessage == <<R("Unexpected token")>>

---------------------------------------------------------------------------
(* JSON.stringify *)

RECURSIVE Spaces(_)
Spaces(n) == IF n <= 0 THEN <<>> ELSE <<Sp>> \o Spaces(n - 1)

\* The line break and indentation before an item at nesting depth `level`.
Indent(gap, level) == IF gap = 0 THEN <<>> ELSE <<Nl>> \o Spaces(gap * level)

RECURSIVE Serialize(_, _, _), SerializeElements(_, _, _), SerializeMembers(_, _, _)

Serialize(x, gap, level) ==
  CASE x.t = "null" -> <<L("null")>>
    [] x.t = "bool" -> <<L(x.v)>>
    [] x.t = "num" -> IF IsFinite(x.v) THEN <<N(x.v)>> ELSE <<L("null")>>
    [] x.t = "str" -> <<S(x.v)>>
    [] x.t = "arr" ->
         IF x.v = <<>> THEN <<P("["), P("]")>>
         ELSE <<P("[")>> \o SerializeElements(x.v, gap, level + 1)
                \o Indent(gap, level) \o <<P("]")>>
    [] x.t = "obj" ->
         IF x.v = <<>> THEN <<P("{"), P("}")>>
         ELSE <<P("{")>> \o SerializeMembers(x.v, gap, level + 1)
                \o Indent(gap, level) \o <<P("}")>>
    [] OTHER -> <<L("null")>>

SerializeElements(elems, gap, level) ==
  IF elems = <<>> THEN <<>>
  ELSE Indent(gap, level) \o Serialize(Head(elems), gap, level)
         \o (IF Len(elems) > 1 THEN <<P(",")>> ELSE <<>>)
         \o SerializeElements(Tail(elems), gap, level)

SerializeMembers(entries, gap, level) ==
  IF entries = <<>> THEN <<>>
  ELSE Indent(gap, level) \o <<S(Head(entries).k), P(":")>>
         \o (IF gap = 0 THEN <<>> ELSE <<Sp>>)
         \o Serialize(Head(entries).val, gap, level)
         \o (IF Len(entries) > 1 THEN <<P(",")>> ELSE <<>>)
         \o SerializeMembers(Tail(entries), gap, level)

\* JSON.stringify(x, null, gap) for a value that is not undefined.
JSONstringify(x, gap) == Serialize(x, gap, 0)

\* String(x) for a primitive.
StringOf(x) ==
  CASE x.t = "undefined" -> <<R("undefined")>>
    [] x.t = "null" -> <<L("null")>>
    [] x.t = "bool" -> <<L(x.v)>>
    [] x.t = "num" -> IF IsFinite(x.v) THEN <<N(x.v)>> ELSE <<R(x.v)>>
    [] x.t = "str" -> x.v
    [] x.t = "fun" -> <<R("function toString() { [native code] }")>>
    [] OTHER -> <<R("[object Object]")>>

---------------------------------------------------------------------------
(* Optional arguments: <<>> is an absent (undefined) one, <<x>> a given x. *)

None == <<>>
Some(x) == <<x>>

\* The text of a name, one raw lexeme per character.
Ch(c) == <<R(c)>>
Dot == R(".")

---------------------------------------------------------------------------
(* Bounds and input catalogues *)

\* The longest path, in segments, that a parse-json call is given.
MaxPathLen == 3

LengthKey == <<R("l"), R("e"), R("n"), R("g"), R("t"), R("h")>>
ToStringKey ==
  <<R("t"), R("o"), R("S"), R("t"), R("r"), R("i"), R("n"), R("g")>>

\* The segments paths are built from: the empty segment, object keys that
\* occur and do not occur in the documents, an array index, "length" and
\* an inherited property, "toString".
Segments == {<<>>, Ch("a"), Ch("b"), Ch("x"), Ch("0"), LengthKey, ToStringKey}

RECURSIVE JoinDots(_)
JoinDots(segs) ==
  IF Len(segs) = 1 THEN segs[1]
  ELSE segs[1] \o <<Dot>> \o JoinDots(Tail(segs))

Paths == {JoinDots(segs) :
            segs \in UNION {[1..n -> Segments] : n \in 1..MaxPathLen}}

Hi == <<R("h"), R("i")>>

\* The JSON documents given to parse-json; the last four do not parse.
Documents ==
  << <<P("{"), S(Ch("a")), P(":"), P("{"), S(Ch("b")), P(":"), N("42"),
       P("}"), P("}")>>,
     <<P("{"), S(Ch("a")), P(":"), N("1"), P("}")>>,
     <<P("{"), S(Ch("a")), P(":"), L("null"), P(","), S(Ch("b")), P(":"),
       L("true"), P("}")>>,
     <<P("{"), Nl, Sp, S(Ch("a")), P(":"), Sp, P("["), N("1.0"), P(","),
       S(Hi), P("]"), P(","), Nl, Sp, S(Ch("b")), P(":"), Sp, S(Hi), Nl,
       P("}")>>,
     <<P("{"), S(<<>>), P(":"), N("5"), P(","), S(Ch("a")), P(":"), N("1"),
       P(","), S(Ch("a")), P(":"), N("2"), P("}")>>,
     <<P("["), P("{"), S(Ch("a")), P(":"), N("1e999"), P("}"), P(","),
       P("["), P("]"), P("]")>>,
     <<N("42")>>,
     <<S(Hi)>>,
     <<L("null")>>,
     <<P("{"), R("not json")>>,
     <<P("["), N("1"), P(","), P("]")>>,
     <<P("{"), S(Ch("a")), P(":"), N("1"), P("}"), P("}")>>,
     <<>> >>

\* What a response body may hold; the last four are not JSON text.
Bodies ==
  << <<P("{"), S(Ch("a")), P(":"), N("1"), P("}")>>,
     <<P("{"), Nl, Sp, Sp, S(Ch("a")), P(":"), Sp, P("["), N("1.0"), P(","),
       S(Hi), P(","), L("null"), P("]"), Nl, P("}")>>,
     <<P("["), N("1e999"), P("]")>>,
     <<S(Hi)>>,
     <<R("hello")>>,
     <<R("<html>"), S(Hi), R("</html>")>>,
     <<P("{"), S(Ch("a")), P(":")>>,
     <<>> >>

ValidUrl == <<R("http:"), R("//api.test/items")>>
Urls == {ValidUrl, <<R("not a url")>>, <<R("//api.test/items")>>}

Methods == {"GET", "POST", "PUT", "DELETE", "PATCH"}
MethodArgs == {None} \cup {Some(m) : m \in Methods \cup {"HEAD"}}

CustomHeaders == <<Entry(Ch("X-Token"), Str(Ch("t")))>>
HeaderArgs == {None, Some(CustomHeaders)}

BodyArgs ==
  << None,
     Some(Null),
     Some(Str(Hi)),
     Some(Str(<<P("{"), S(Ch("a")), P(":"), N("1"), P("}")>>)),
     Some(Obj(<<Entry(Ch("a"), Arr(<<Num("1"), Str(Hi)>>))>>)) >>

TimeoutMin == 1000
TimeoutMax == 30000
TimeoutDefault == 10000
TimeoutArgs == {None, Some(TimeoutMin - 1), Some(TimeoutMin),
                Some(TimeoutMax), Some(TimeoutMax + 1)}

Statuses == {<<"200", "OK">>, <<"404", "Not Found">>,
             <<"500", "Internal Server Error">>}
ResponseHeaders == <<Entry(Ch("content-type"), Str(Ch("text/plain")))>>

TransportErrors == {Ch("socket hang up"), Ch("network timeout"),
                    Ch("getaddrinfo ENOTFOUND")}

---------------------------------------------------------------------------
(* The curl tool: input schema *)

Schemes == {"http:", "https:"}

\* z.string().url(): the text is an absolute URL.
UrlValid(url) == Len(url) >= 2 /\ url[1].k = "raw" /\ url[1].s \in Schemes

\* z.enum([...]).default("GET")
MethodValid(m) == IF m = None THEN TRUE ELSE m[1] \in Methods

\* Mutant: the lower limit of the timeout is not checked.
TimeoutValidNoMin(t) == IF t = None THEN TRUE ELSE t[1] <= TimeoutMax

\* z.number().min(1000).max(30000).default(10000)
TimeoutValid(t) ==
  IF t = None THEN TRUE ELSE t[1] >= TimeoutMin /\ t[1] <= TimeoutMax

CurlSchemaAccepts(a) ==
  UrlValid(a.url) /\ MethodValid(a.method) /\ TimeoutValid(a.timeout)

\* The parsed arguments the handler receives, defaults applied.
CurlParsed(a) ==
  [url |-> a.url,
   method |-> IF a.method = None THEN "GET" ELSE a.method[1],
   headers |-> a.headers,
   body |-> a.body,
   timeout |-> IF a.timeout = None THEN TimeoutDefault ELSE a.timeout[1]]

---------------------------------------------------------------------------
(* The curl tool: handler *)

DefaultHeaders ==
  <<Entry(Ch("Content-Type"), Str(Ch("application/json"))),
    Entry(Ch("Accept"), Str(Ch("application/json")))>>

\* Mutant: every body is serialized, a string one too.
EncodeBodyAlwaysJson(body) == JSONstringify(body, 0)

\* typeof body === "string" ? body : JSON.stringify(body)
EncodeBody(body) ==
  IF TypeOf(body) = "string" THEN body.v ELSE JSONstringify(body, 0)

\* Mutant: the body is attached whatever the method.
ResolveBodyAnyMethod(method, body) ==
  IF body # None THEN Some(EncodeBody(body[1])) ELSE None

\* options.body: set only for a non-GET method with a body that is given.
ResolveBody(method, body) ==
  IF method # "GET" /\ body # None THEN Some(EncodeBody(body[1])) ELSE None

RequestOptions(req) ==
  [method |-> req.method,
   headers |-> IF req.headers # None THEN req.headers[1] ELSE DefaultHeaders,
   timeout |-> req.timeout,
   body |-> ResolveBody(req.method, req.body)]

\* Mutant: the request is sent a second time.
IssueFetchTwice(sent, url, opts) ==
  sent \o <<[url |-> url, options |-> opts], [url |-> url, options |-> opts]>>

\* fetch(url, options): one call of the transport.
IssueFetch(sent, url, opts) == Append(sent, [url |-> url, options |-> opts])

\* Reading a response body: it can be read once, and the stream may fail.
ConsumeBody(resp) ==
  IF resp.bodyUsed
  THEN [ok |-> FALSE, text |-> <<>>,
        message |-> <<R("body used already for: ")>> \o resp.url]
  ELSE IF resp.fault
  THEN [ok |-> FALSE, text |-> <<>>, message |-> Ch("Premature close")]
  ELSE [ok |-> TRUE, text |-> resp.body, message |-> <<>>]

\* response.json(): the body read and parsed; ok = FALSE is a rejection.
ResponseJson(resp) ==
  LET c == ConsumeBody(resp)
  IN IF c.ok THEN JSONparse(c.text) ELSE [ok |-> FALSE, val |-> Undefined]

\* Mutant: the parsed body is serialized without indentation.
CompactBody(val) == JSONstringify(val, 0)

\* responseText = JSON.stringify(responseData, null, 2)
PrettyBody(val) == JSONstringify(val, 2)

Key(name) == Ch(name)

\* The CurlResponse object.
Envelope(resp, text) ==
  Obj(<<Entry(Key("status"), Num(resp.status)),
        Entry(Key("statusText"), Str(Ch(resp.statusText))),
        Entry(Key("headers"), Obj(resp.headers)),
        Entry(Key("data"), Str(text))>>)

Success(text) == [isError |-> FALSE, text |-> text]
Failure(text) == [isError |-> TRUE, text |-> text]

CurlSuccess(resp, text) == Success(JSONstringify(Envelope(resp, text), 2))

\* Mutant: the error is thrown on instead of being returned.
RethrowRequestError(message) ==
  [escaped |-> TRUE, result |-> [isError |-> TRUE, text |-> message]]

\* The handler's catch: the error becomes the returned failure.
CatchRequestError(message) ==
  [escaped |-> FALSE,
   result |-> Failure(<<R("Error making request: ")>> \o message)]

---------------------------------------------------------------------------
(* The parse-json tool *)

RECURSIVE SplitFrom(_, _, _)
SplitFrom(text, cur, out) ==
  IF text = <<>> THEN Append(out, cur)
  ELSE IF Head(text) = Dot
       THEN SplitFrom(Tail(text), <<>>, Append(out, cur))
       ELSE SplitFrom(Tail(text), Append(cur, Head(text)), out)

\* path.split(".")
Split(text) == SplitFrom(text, <<>>, <<>>)

\* if (path): a path that is given and is not the empty string.
PathTruthy(path) == path # None /\ path[1] # <<>>

\* The array index a key denotes, or -1.
IndexOf(key) ==
  CASE key = Ch("0") -> 0
    [] key = Ch("1") -> 1
    [] key = Ch("2") -> 2
    [] OTHER -> -1

RECURSIVE Lookup(_, _)
Lookup(entries, key) ==
  IF entries = <<>> THEN Undefined
  ELSE IF Head(entries).k = key THEN Head(entries).val
  ELSE Lookup(Tail(entries), key)

\* An own property of x, or Undefined.
OwnProperty(x, key) ==
  CASE x.t = "obj" -> Lookup(x.v, key)
    [] x.t \in {"arr", "str"} ->
         IF key = LengthKey THEN Num(ToString(Len(x.v)))
         ELSE IF IndexOf(key) >= 0 /\ IndexOf(key) < Len(x.v)
              THEN IF x.t = "arr" THEN x.v[IndexOf(key) + 1]
                   ELSE Str(<<x.v[IndexOf(key) + 1]>>)
         ELSE Undefined
    [] x.t = "fun" ->
         IF key = LengthKey THEN Num(IF x.v = "num" THEN "1" ELSE "0")
         ELSE Undefined
    [] OTHER -> Undefined

\* Mutant: a property of a primitive cannot be read (as with `key in x`).
GetPropertyOfObjectsOnly(x, key) ==
  IF x.t \notin {"obj", "arr", "fun"}
  THEN [raised |-> TRUE, val |-> Undefined]
  ELSE [raised |-> FALSE,
        val |-> IF OwnProperty(x, key) # Undefined THEN OwnProperty(x, key)
                ELSE IF key = ToStringKey THEN Fun(x.t) ELSE Undefined]

\* x[key] for the keys of Segments: an own property, else one inherited
\* from the prototype; raised = TRUE is the TypeError of reading a
\* property of null or undefined.
GetProperty(x, key) ==
  IF IsNullish(x) THEN [raised |-> TRUE, val |-> Undefined]
  ELSE [raised |-> FALSE,
        val |-> IF OwnProperty(x, key) # Undefined THEN OwnProperty(x, key)
                ELSE IF key = ToStringKey THEN Fun(x.t) ELSE Undefined]

\* Mutant: the loop stops at null only.
BreakGuardNullOnly(x) == x.t = "null"

\* if (result === null || result === undefined) break;
BreakGuard(x) == IsNullish(x)

RECURSIVE Traverse(_, _, _)
Traverse(x, parts, n) ==
  IF parts = <<>> \/ BreakGuard(x)
  THEN [raised |-> FALSE, val |-> x, steps |-> n]
  ELSE LET g == GetProperty(x, Head(parts))
       IN IF g.raised THEN [raised |-> TRUE, val |-> Undefined, steps |-> n]
          ELSE Traverse(g.val, Tail(parts), n + 1)

\* Mutant: every result is serialized as JSON.
FormatAlwaysJson(x) == JSONstringify(x, 2)

\* typeof result === "object" ? JSON.stringify(result, null, 2) : String(result)
Format(x) ==
  IF TypeOf(x) = "object" THEN JSONstringify(x, 2) ELSE StringOf(x)

TypeErrorMessage == Ch("Cannot read properties of undefined")

ExtractFailure(path, message) ==
  Failure(<<R("Error extracting data with path \"")>> \o path
            \o <<R("\": ")>> \o message)

ParseFailure(message) == Failure(<<R("Error parsing JSON: ")>> \o message)

\* The parse-json handler: the result it returns and the index steps taken.
ParseJsonHandler(json, path) ==
  LET p == JSONparse(json)
  IN IF ~p.ok
     THEN [result |-> ParseFailure(SyntaxErrorMessage), steps |-> 0]
     ELSE IF PathTruthy(path)
     THEN LET w == Traverse(p.val, Split(path[1]), 0)
          IN IF w.raised
             THEN [result |-> ExtractFailure(path[1], TypeErrorMessage),
                   steps |-> w.steps]
             ELSE [result |-> Success(Format(w.val)), steps |-> w.steps]
     ELSE [result |-> Success(Format(p.val)), steps |-> 0]

---------------------------------------------------------------------------
(* The state machine: one tool invocation at a time; the server keeps no   *)
(* state between invocations.                                              *)

NoResponse == [url |-> <<>>, status |-> "", statusText |-> "",
               headers |-> <<>>, body |-> <<>>, fault |-> FALSE,
               bodyUsed |-> FALSE, failed |-> FALSE, error |-> <<>>]
NoResult == [isError |-> FALSE, text |-> <<>>]

Init == /\ pc = "idle" /\ tool = "" /\ args = <<>> /\ input = None
        /\ options = None /\ calls = <<>> /\ response = NoResponse
        /\ responseText = None /\ result = NoResult /\ results = 0
        /\ steps = 0 /\ escaped = FALSE

\* A tools/call request for curl arrives.
CallCurl ==
  /\ pc = "idle"
  /\ \E url \in Urls, m \in MethodArgs, h \in HeaderArgs,
        b \in DOMAIN BodyArgs, t \in TimeoutArgs :
       args' = [url |-> url, method |-> m, headers |-> h,
                body |-> BodyArgs[b], timeout |-> t]
  /\ tool' = "curl" /\ pc' = "called"
  /\ UNCHANGED <<input, options, calls, response, responseText, result,
                 results, steps, escaped>>

\* A tools/call request for parse-json arrives.
CallParseJson ==
  /\ pc = "idle"
  /\ \E d \in DOMAIN Documents, p \in {None} \cup {Some(q) : q \in Paths} :
       args' = [json |-> Documents[d], path |-> p]
  /\ tool' = "parse-json" /\ pc' = "called"
  /\ UNCHANGED <<input, options, calls, response, responseText, result,
                 results, steps, escaped>>

\* The arguments fail the input schema: the call is answered with an
\* error and the handler is not run.
RejectInput ==
  /\ pc = "called" /\ tool = "curl" /\ ~CurlSchemaAccepts(args)
  /\ result' = Failure(Ch("Invalid arguments for tool curl"))
  /\ results' = results + 1 /\ pc' = "done"
  /\ UNCHANGED <<tool, args, input, options, calls, response, responseText,
                 steps, escaped>>

\* The curl handler up to its await of fetch.
CurlStart ==
  /\ pc = "called" /\ tool = "curl" /\ CurlSchemaAccepts(args)
  /\ LET req == CurlParsed(args)
     IN /\ input' = Some(req)
        /\ options' = Some(RequestOptions(req))
        /\ calls' = IssueFetch(calls, req.url, RequestOptions(req))
  /\ pc' = "awaitFetch"
  /\ UNCHANGED <<tool, args, response, responseText, result, results, steps,
                 escaped>>

\* fetch resolves with a response of any status; the handler calls
\* response.json().
FetchResolve ==
  /\ pc = "awaitFetch"
  /\ \E st \in Statuses, b \in DOMAIN Bodies, f \in BOOLEAN :
       response' = [url |-> input[1].url, status |-> st[1],
                    statusText |-> st[2], headers |-> ResponseHeaders,
                    body |-> IF f THEN <<>> ELSE Bodies[b], fault |-> f,
                    bodyUsed |-> FALSE, failed |-> FALSE, error |-> <<>>]
  /\ pc' = "awaitJson"
  /\ UNCHANGED <<tool, args, input, options, calls, responseText, result,
                 results, steps, escaped>>

\* fetch rejects: the outer catch returns or the error escapes.
FetchReject ==
  /\ pc = "awaitFetch"
  /\ \E e \in TransportErrors :
       LET c == CatchRequestError(e)
       IN /\ escaped' = c.escaped
          /\ result' = IF c.escaped THEN result ELSE c.result
          /\ results' = IF c.escaped THEN results ELSE results + 1
          /\ response' = [response EXCEPT !.failed = TRUE, !.error = e]
  /\ pc' = "done"
  /\ UNCHANGED <<tool, args, input, options, calls, responseText, steps>>

\* response.json() resolves: the rest of the handler runs to its return.
JsonResolve ==
  /\ pc = "awaitJson" /\ ResponseJson(response).ok
  /\ LET text == PrettyBody(ResponseJson(response).val)
     IN /\ responseText' = Some(text)
        /\ result' = CurlSuccess(response, text)
  /\ response' = [response EXCEPT !.bodyUsed = TRUE]
  /\ results' = results + 1 /\ pc' = "done"
  /\ UNCHANGED <<tool, args, input, options, calls, steps, escaped>>

\* response.json() rejects: the inner catch calls response.text().
JsonReject ==
  /\ pc = "awaitJson" /\ ~ResponseJson(response).ok
  /\ response' = [response EXCEPT !.bodyUsed = TRUE]
  /\ pc' = "awaitText"
  /\ UNCHANGED <<tool, args, input, options, calls, responseText, result,
                 results, steps, escaped>>

\* response.text() settles: with the text the handler returns the
\* envelope, with a rejection the outer catch takes over.
TextSettle ==
  /\ pc = "awaitText"
  /\ LET c == ConsumeBody(response)
         x == CatchRequestError(c.message)
     IN IF c.ok
        THEN /\ responseText' = Some(c.text)
             /\ result' = CurlSuccess(response, c.text)
             /\ results' = results + 1
             /\ escaped' = escaped
        ELSE /\ responseText' = responseText
             /\ escaped' = x.escaped
             /\ result' = IF x.escaped THEN result ELSE x.result
             /\ results' = IF x.escaped THEN results ELSE results + 1
  /\ pc' = "done"
  /\ UNCHANGED <<tool, args, input, options, calls, response, steps>>

\* The parse-json handler; it has no await and runs in one step.
ParseJson ==
  /\ pc = "called" /\ tool = "parse-json"
  /\ input' = Some(args)
  /\ LET r == ParseJsonHandler(args.json, args.path)
     IN result' = r.result /\ steps' = r.steps
  /\ results' = results + 1 /\ pc' = "done"
  /\ UNCHANGED <<tool, args, options, calls, response, responseText,
                 escaped>>

\* The invocation is over; nothing of it is kept.
Finish ==
  /\ pc = "done"
  /\ pc' = "idle" /\ tool' = "" /\ args' = <<>> /\ input' = None
  /\ options' = None /\ calls' = <<>> /\ response' = NoResponse
  /\ responseText' = None /\ result' = NoResult /\ results' = 0
  /\ steps' = 0 /\ escaped' = FALSE

Next == \/ CallCurl \/ CallParseJson \/ RejectInput \/ CurlStart
        \/ FetchResolve \/ FetchReject \/ JsonResolve \/ JsonReject
        \/ TextSettle \/ ParseJson \/ Finish

Spec == Init /\ [][Next]_vars

---------------------------------------------------------------------------
(* Properties of the curl tool *)

CurlDone == pc = "done" /\ tool = "curl"

\* The transport call succeeded and the whole body text was delivered.
Delivered == response.status # "" /\ ~response.fault

\* The fields of the envelope a success result carries.
EnvelopeOf(r) == JSONparse(r.text).val
Field(r, name) == Lookup(EnvelopeOf(r).v, Key(name))

CarriesEnvelope(r) ==
  /\ JSONparse(r.text).ok
  /\ EnvelopeOf(r).t = "obj"
  /\ HasKey(EnvelopeOf(r).v, Key("data"))

\* C1: whenever the transport call succeeded and the body is not valid
\* JSON text, the curl handler returns a success result whose envelope
\* field data is the raw body text; the fallback never makes the call fail.
C1_NonJsonBodyReturnsRawText ==
  (CurlDone /\ Delivered /\ ~JSONparse(response.body).ok)
    => /\ ~escaped
       /\ ~result.isError
       /\ CarriesEnvelope(result)
       /\ Field(result, "data") = Str(response.body)

\* A value with every non-finite number replaced by null.
RECURSIVE FiniteOnly(_)
FiniteOnly(x) ==
  CASE x.t = "num" -> IF IsFinite(x.v) THEN x ELSE Null
    [] x.t = "arr" -> Arr([i \in 1..Len(x.v) |-> FiniteOnly(x.v[i])])
    [] x.t = "obj" ->
         Obj([i \in 1..Len(x.v) |-> Entry(x.v[i].k, FiniteOnly(x.v[i].val))])
    [] OTHER -> x

JsonBodyDone == CurlDone /\ Delivered /\ JSONparse(response.body).ok

\* What holds of every response with a JSON body, whatever its status: a
\* success result carrying the transport's status, statusText and headers
\* and, as data, the parsed body serialized with an indentation of 2.
JsonBodyEnvelope ==
  /\ ~escaped
  /\ ~result.isError
  /\ CarriesEnvelope(result)
  /\ Field(result, "status") = Num(response.status)
  /\ Field(result, "statusText") = Str(Ch(response.statusText))
  /\ Field(result, "headers") = Obj(response.headers)
  /\ Field(result, "data").t = "str"
  /\ Field(result, "data").v = Serialize(JSONparse(response.body).val, 2, 0)
  /\ JSONparse(Field(result, "data").v).ok

\* C2 (as stated): for a JSON body the result is a success carrying status,
\* statusText and headers, and parsing data again gives a value deep-equal
\* to the parsed body.
C2_JsonBodyRoundTrips ==
  JsonBodyDone
    => /\ JsonBodyEnvelope
       /\ JSONparse(Field(result, "data").v).val = JSONparse(response.body).val

\* C2 (amended): for a JSON body the result is a success carrying status,
\* statusText and headers, and parsing data again gives the parsed body
\* with every non-finite number replaced by null: the parsed body itself
\* when all its numbers are finite.
C2_JsonBodyRoundTripsFinite ==
  JsonBodyDone
    => /\ JsonBodyEnvelope
       /\ JSONparse(Field(result, "data").v).val
            = FiniteOnly(JSONparse(response.body).val)
       /\ FiniteOnly(JSONparse(response.body).val) = JSONparse(response.body).val
            => JSONparse(Field(result, "data").v).val
                 = JSONparse(response.body).val

C2_Witness ==
  /\ JsonBodyDone /\ response.status = "404" /\ ~result.isError
  /\ response.body = Bodies[2]

\* C3: a GET request carries no body on the outbound call, whatever body
\* the caller supplied.
C3_GetCarriesNoBody ==
  (tool = "curl" /\ input # None /\ input[1].method = "GET")
    => /\ Len(calls) >= 1
       /\ \A i \in DOMAIN calls :
            calls[i].options.method = "GET" /\ calls[i].options.body = None

C3_Witness ==
  /\ tool = "curl" /\ input # None /\ input[1].method = "GET"
  /\ args.body = Some(Str(Hi)) /\ Len(calls) = 1 /\ pc = "awaitFetch"

\* C4: for POST, PUT, DELETE and PATCH, a string body goes out unchanged,
\* any other supplied body goes out as its JSON serialization, and with no
\* body supplied none is attached.
C4_NonGetBodyEncoding ==
  (tool = "curl" /\ input # None /\ input[1].method # "GET")
    => /\ Len(calls) >= 1
       /\ \A i \in DOMAIN calls :
            IF args.body = None THEN calls[i].options.body = None
            ELSE /\ calls[i].options.body # None
                 /\ IF args.body[1].t = "str"
                    THEN calls[i].options.body[1] = args.body[1].v
                    ELSE /\ calls[i].options.body[1]
                              = Serialize(args.body[1], 0, 0)
                         /\ JSONparse(calls[i].options.body[1]).ok
                         /\ JSONparse(calls[i].options.body[1]).val
                              = args.body[1]

C4_Witness ==
  /\ tool = "curl" /\ input # None /\ input[1].method = "DELETE"
  /\ args.body = Some(Str(Hi)) /\ Len(calls) = 1
  /\ calls[1].options.body = Some(Hi)

\* C5: when the transport call fails, the handler returns a failure result,
\* error flag set and the text "Error making request: " followed by the
\* transport's message; no envelope is returned and nothing escapes.
C5_TransportFailureIsFailureResult ==
  (CurlDone /\ response.failed)
    => /\ ~escaped
       /\ results = 1
       /\ result.isError
       /\ result.text = <<R("Error making request: ")>> \o response.error
       /\ response.error \in TransportErrors
       /\ ~JSONparse(result.text).ok
       /\ responseText = None

C5_Witness ==
  /\ CurlDone /\ response.failed /\ result.isError
  /\ response.error = Ch("network timeout")

\* C6: a curl call whose timeout is below 1000 or above 30000, or whose url
\* is not a well-formed URL, makes no outbound call and never reaches the
\* handler; it is answered with an error.
C6_InvalidInputMakesNoCall ==
  (tool = "curl" /\ pc # "idle"
     /\ (\/ args.url # ValidUrl
         \/ (args.timeout # None /\ args.timeout[1] < 1000)
         \/ (args.timeout # None /\ args.timeout[1] > 30000)))
    => /\ calls = <<>>
       /\ input = None
       /\ options = None
       /\ pc \in {"called", "done"}
       /\ pc = "done" => result.isError

C6_Witness ==
  /\ tool = "curl" /\ pc = "done" /\ args.url = ValidUrl
  /\ args.timeout = Some(999) /\ calls = <<>> /\ result.isError

\* C7: a curl call with valid input makes exactly one outbound request on
\* every path (JSON body, other body, transport failure), never a second
\* one, and ends with exactly one result.
C7_ExactlyOneRequest ==
  /\ Len(calls) <= 1
  /\ results <= 1
  /\ (tool = "curl" /\ input # None)
       => /\ Len(calls) = 1
          /\ calls[1].url = args.url
          /\ pc \in {"awaitFetch", "awaitJson", "awaitText", "done"}
          /\ pc = "done" => (results = 1 /\ ~escaped)
          /\ pc # "done" => results = 0

C7_Witness ==
  /\ CurlDone /\ input # None /\ Delivered /\ ~JSONparse(response.body).ok
  /\ Len(calls) = 1 /\ results = 1

---------------------------------------------------------------------------
(* Properties of the parse-json tool *)

ParseJsonDone == pc = "done" /\ tool = "parse-json"

Document == JSONparse(args.json).val

\* The traversal as the specification words it: index with each segment
\* from left to right, stopping at the first null or absent value.
RECURSIVE RefTraversal(_, _)
RefTraversal(x, segs) ==
  IF segs = <<>> \/ IsNullish(x) THEN x
  ELSE RefTraversal(GetProperty(x, Head(segs)).val, Tail(segs))

\* Pretty-printed JSON for an object or array, the plain text otherwise.
RefSerialization(x) ==
  IF x.t \in {"obj", "arr"} THEN Serialize(x, 2, 0) ELSE StringOf(x)

PathAB == <<R("a"), Dot, R("b")>>

ExampleAB ==
  (args.json = Documents[1] /\ args.path = Some(PathAB))
    => result = Success(<<N("42")>>)

KeyMissing(x, key) ==
  /\ key # ToStringKey
  /\ CASE x.t = "obj" -> ~HasKey(x.v, key)
       [] x.t \in {"arr", "str"} ->
            key # LengthKey /\ ~(IndexOf(key) >= 0 /\ IndexOf(key) < Len(x.v))
       [] x.t = "fun" -> key # LengthKey
       [] OTHER -> TRUE

\* The position of the first segment that names a missing key of the value
\* reached, or 0 when there is none.
RECURSIVE FirstMiss(_, _, _)
FirstMiss(x, segs, n) ==
  IF segs = <<>> \/ IsNullish(x) THEN 0
  ELSE IF KeyMissing(x, Head(segs)) THEN n + 1
  ELSE FirstMiss(GetProperty(x, Head(segs)).val, Tail(segs), n + 1)

MissingKeyYieldsAbsence ==
  /\ ~result.isError
  /\ result.text = <<R("undefined")>>
  /\ steps = FirstMiss(Document, Split(args.path[1]), 0)

\* C9 (as stated): for every document that parses and every path with a
\* segment naming a key missing from the value reached, the result is
\* absence and no error: indexing does not raise and the traversal stops.
C9_MissingKeyYieldsAbsence ==
  (ParseJsonDone /\ JSONparse(args.json).ok /\ args.path # None
     /\ FirstMiss(Document, Split(args.path[1]), 0) > 0)
    => MissingKeyYieldsAbsence

\* C9 (amended): for every document that parses and every non-empty path
\* with a segment naming a key missing from the value reached (no own or
\* inherited property of that name), the result is absence, the text
\* "undefined", and no error: indexing does not raise and the traversal
\* stops at that segment.
C9_MissingKeyYieldsAbsenceNonEmpty ==
  (ParseJsonDone /\ JSONparse(args.json).ok /\ args.path # None
     /\ args.path # Some(<<>>)
     /\ FirstMiss(Document, Split(args.path[1]), 0) > 0)
    => MissingKeyYieldsAbsence

PathABX == <<R("a"), Dot, R("b"), Dot, R("x")>>

C9_Witness ==
  /\ ParseJsonDone /\ args.json = Documents[2] /\ args.path = Some(PathABX)
  /\ ~result.isError /\ steps = 2

=============================================================================
